---- MODULE Spec2Model ----
(***************************************************************************)
(* Build server of Deploy-Ninja (build-server/src/server.js) as a state    *)
(* machine.  Node runs one callback at a time and drains the microtask     *)
(* queue before it takes the next event, so every action below is one      *)
(* event-loop callback (an I/O completion, a timer, a signal, a subprocess *)
(* event) together with every continuation that runs until the code is     *)
(* suspended again at an await on outstanding I/O, or calls process.exit.  *)
(***************************************************************************)
EXTENDS Integers, Sequences, FiniteSets, TLC

\* ---------------------------------------------------------------- bounds
\* largest number of non-directory entries the artifact listing may hold
MaxFiles == 2
\* largest number of stdout/stderr chunks the subprocess may emit
MaxChunks == 2

\* ------------------------------------------------------- configuration
\* config.js validateConfig: requiredFields, in order, by the environment
\* variable each field is read from (config.js lines 8-35)
RequiredFields ==
  << "AWS_REGION", "AWS_ACCESS_KEY_ID", "AWS_SECRET_ACCESS_KEY", "S3_BUCKET_NAME",
     "PROJECT_URI", "DEPLOYMENT_ID", "PROJECT_INSTALL_COMMAND", "PROJECT_BUILD_COMMAND" >>

\* server.js initialize: the list handed to ErrorHandler.validateEnvironment
RequiredVars ==
  << "PROJECT_URI", "DEPLOYMENT_ID", "PROJECT_INSTALL_COMMAND",
     "PROJECT_BUILD_COMMAND", "PROJECT_ROOT_DIR" >>

Range(s) == { s[i] : i \in 1..Len(s) }

EnvVars == Range(RequiredFields) \cup Range(RequiredVars)

NoError == [code |-> "none", fields |-> << >>]

VARIABLES
  missing,       \* environment variables that are unset or empty
  uncaught,      \* the uncaughtException handler has run
  emitted,       \* status events whose publish runBuild() has issued
  pc,            \* where the initialize()/runBuild() sequence is suspended
  mainErr,       \* kind of the error the sequence caught, "none" before
  cause,         \* first of: a caught failure, a signal, a fault handler ("none" before)
  initReached,   \* initialize() has been called
  startErr,      \* error raised by configuration validation
  handlers,      \* setupCleanup has registered the process handlers
  producer,      \* kafkaService.producer is non-null
  chConnected,   \* clickhouseService.isConnected
  dirExists,     \* the output directory exists
  rmThrew,       \* teardown's rmSync raised
  isExiting,     \* BuildServer.isExiting
  td,            \* progress of the cleanup() call that passed the guard
  tdStatus,      \* status that call computed
  tdCode,        \* exit code its caller passes to process.exit afterwards
  procKilled,    \* buildProcess.killed
  metricsCalls,  \* calls of recordBuildMetrics that reached the insert
  exited,        \* process.exit has been called (or the process crashed)
  exitCode,
  kafkaDisc,     \* producer.disconnect() of gracefulShutdown
  chDisc,        \* client.close() of gracefulShutdown
  metrics,       \* status of the stored build_metrics row, "none" without one
  kafkaDisconnects,
  chDisconnects,
  rmAttempts,
  proc,          \* subprocess: "none", "running", "closed"
  procCode,      \* code of its 'close' event
  timerArmed,    \* buildTimeout is pending
  timerKill,     \* the timeout callback sent a kill to a running subprocess
  execPromise,   \* promise of executeBuildProcess
  execErr,       \* what rejected it
  spawnFailed,   \* the 'error' event was emitted
  chunks,        \* data events delivered so far
  logInflight,   \* data handlers suspended at their Promise.all
  distExists,    \* <outputDir>/dist existed when uploadArtifacts looked
  listing,       \* what readdirSync returned for dist
  calls,         \* calls of s3Service.uploadFile: listing entry and destination key
  nFiles,        \* totalFiles
  upl,           \* state of each upload task
  uploadedCount,
  progress,      \* progress values in the order publishLog was called
  uploadCalls    \* calls of s3Service.uploadFile

mainVars == << pc, mainErr, cause, initReached, startErr, handlers >>
svcVars  == << producer, chConnected >>
dirVars  == << dirExists, rmThrew >>
tdVars   == << isExiting, td, tdStatus, tdCode, metricsCalls, exited, exitCode >>
sdVars   == << kafkaDisc, chDisc, metrics, kafkaDisconnects, chDisconnects, rmAttempts >>
procVars == << proc, procCode, timerArmed, timerKill, execPromise, execErr, spawnFailed, chunks >>
uplVars  == << distExists, listing, calls, nFiles, upl, uploadedCount, progress, uploadCalls >>

vars == << missing, uncaught, emitted, mainVars, svcVars, dirVars, tdVars, procKilled, sdVars, procVars,
           logInflight, uplVars >>

Files == 1..MaxFiles

Init ==
  /\ missing \in SUBSET EnvVars
  /\ uncaught = FALSE
  /\ emitted = {}
  /\ pc = "load"
  /\ mainErr = "none"
  /\ cause = "none"
  /\ initReached = FALSE
  /\ startErr = NoError
  /\ handlers = FALSE
  /\ producer = FALSE
  /\ chConnected = FALSE
  /\ dirExists = TRUE
  /\ rmThrew = FALSE
  /\ isExiting = FALSE
  /\ td = "idle"
  /\ tdStatus = "none"
  /\ tdCode = 0
  /\ procKilled = FALSE
  /\ metricsCalls = 0
  /\ exited = FALSE
  /\ exitCode = 0
  /\ kafkaDisc = "none"
  /\ chDisc = "none"
  /\ metrics = "none"
  /\ kafkaDisconnects = 0
  /\ chDisconnects = 0
  /\ rmAttempts = 0
  /\ proc = "none"
  /\ procCode = "none"
  /\ timerArmed = FALSE
  /\ timerKill = FALSE
  /\ execPromise = "none"
  /\ execErr = "none"
  /\ spawnFailed = FALSE
  /\ chunks = 0
  /\ logInflight = 0
  /\ distExists = FALSE
  /\ listing = << >>
  /\ calls = << >>
  /\ nFiles = 0
  /\ upl = [i \in Files |-> "none"]
  /\ uploadedCount = 0
  /\ progress = << >>
  /\ uploadCalls = 0

\* ------------------------------------------------- configuration checks
\* config.js validateConfig: the first required field without a value
FirstMissing(fields) ==
  LET idx == { i \in 1..Len(fields) : fields[i] \in missing }
  IN  IF idx = {} THEN 0 ELSE CHOOSE i \in idx : \A j \in idx : i <= j

\* errorHandler.js validateEnvironment: requiredVars.filter(v => !process.env[v])
IsMissing(v) == v \in missing
MissingVars(requiredVars) == SelectSeq(requiredVars, IsMissing)


\* --------------------------------------------------------------- cleanup
\* server.js line 259: the entry guard of cleanup()
CleanupGuardOff == FALSE
CleanupGuard == isExiting

\* server.js lines 268-270: kill() marks the handle killed when a signal was
\* delivered, that is when there is a live subprocess
KillOnCleanup == procKilled \/ (proc = "running" /\ ~spawnFailed)

\* server.js lines 258-281 followed by the caller's process.exit(code):
\* cleanup(error) up to its first suspension.  A call that finds the latch set
\* returns at once and its caller exits; so does a call whose
\* recordBuildMetrics throws because the client is not connected
\* (clickhouseService.js lines 104-109), which skips gracefulShutdown.
\* The catch of server.js lines 295-297 keeps that error inside cleanup();
\* without it the call would raise to its caller (td = "raised") and the
\* caller's process.exit would not be reached.
CleanupRethrows == FALSE
CleanupCatches == TRUE

Cleanup(err, code) ==
  IF CleanupGuard
  THEN /\ exited' = TRUE
       /\ exitCode' = code
       /\ UNCHANGED << isExiting, td, tdStatus, tdCode, metricsCalls, procKilled >>
  ELSE /\ isExiting' = TRUE
       /\ procKilled' = KillOnCleanup
       /\ tdStatus' = IF err THEN "FAILED" ELSE "SUCCESS"
       /\ tdCode' = code
       /\ IF chConnected
          THEN /\ td' = "metrics"
               /\ metricsCalls' = metricsCalls + 1
               /\ UNCHANGED << exited, exitCode >>
          ELSE IF CleanupCatches
               THEN /\ td' = "aborted"
                    /\ exited' = TRUE
                    /\ exitCode' = code
                    /\ UNCHANGED metricsCalls
               ELSE /\ td' = "raised"
                    /\ UNCHANGED << exited, exitCode, metricsCalls >>

FirstCause(c) == IF cause = "none" THEN c ELSE cause
FirstErr(kind) == IF mainErr = "none" THEN kind ELSE mainErr

\* server.js lines 38-42: the catch block of initialize()
InitializeCatch(kind) ==
  /\ mainErr' = FirstErr(kind)
  /\ cause' = FirstCause("failure")
  /\ pc' = "cleanup"
  /\ Cleanup(TRUE, 1)

\* server.js lines 74-76: the catch block of runBuild() up to its first await
RunBuildCatch(kind) ==
  /\ mainErr' = FirstErr(kind)
  /\ cause' = FirstCause("failure")
  /\ pc' = "catchPub"

\* ------------------------------------------------------- initialization
\* config.js lines 39-59: validateConfig() runs when the module is loaded and
\* throws at the first missing field; nothing catches it, the process dies
LoadConfig ==
  /\ ~exited /\ pc = "load"
  /\ LET k == FirstMissing(RequiredFields) IN
       IF k # 0
       THEN /\ startErr' = [code |-> "Error", fields |-> << RequiredFields[k] >>]
            /\ pc' = "crashed"
            /\ exited' = TRUE
            /\ exitCode' = 1
       ELSE /\ pc' = "init"
            /\ UNCHANGED << startErr, exited, exitCode >>
  /\ UNCHANGED << missing, uncaught, emitted, mainErr, cause, initReached, handlers, svcVars, dirVars,
                  isExiting, td, tdStatus, tdCode, metricsCalls, procKilled, sdVars,
                  procVars, logInflight, uplVars >>

\* server.js lines 19-32: validateEnvironment, then the ping of
\* clickhouseService.initialize() is issued
Initialize ==
  /\ ~exited /\ pc = "init"
  /\ initReached' = TRUE
  /\ LET mv == MissingVars(RequiredVars) IN
       IF Len(mv) > 0
       THEN /\ startErr' = [code |-> "VALIDATION_ERROR", fields |-> mv]
            /\ InitializeCatch("validation")
       ELSE /\ pc' = "chPing"
            /\ UNCHANGED << startErr, mainErr, cause, tdVars, procKilled >>
  /\ UNCHANGED << missing, uncaught, emitted, handlers, svcVars, dirVars, sdVars, procVars, logInflight,
                  uplVars >>

\* clickhouseService.js lines 18-34: the ping settles
ChPingSettle(ok) ==
  /\ ~exited /\ pc = "chPing"
  /\ IF ok
     THEN /\ chConnected' = TRUE
          /\ pc' = "chTables1"
          /\ UNCHANGED << mainErr, cause, tdVars, procKilled >>
     ELSE /\ InitializeCatch("clickhouse")
          /\ UNCHANGED chConnected
  /\ UNCHANGED << missing, uncaught, emitted, initReached, startErr, handlers, producer, dirVars, sdVars,
                  procVars, logInflight, uplVars >>

\* clickhouseService.js lines 64-74 and config.js lines 87-92: one of the two
\* CREATE TABLE statements settles; after the second, kafkaService.connect()
\* creates the producer and awaits its connection
ChExecSettle(ok) ==
  /\ ~exited /\ pc \in {"chTables1", "chTables2"}
  /\ IF ok
     THEN /\ pc' = IF pc = "chTables1" THEN "chTables2" ELSE "kafkaConnect"
          /\ producer' = (producer \/ pc = "chTables2")
          /\ UNCHANGED << mainErr, cause, tdVars, procKilled >>
     ELSE /\ InitializeCatch("clickhouse")
          /\ UNCHANGED producer
  /\ UNCHANGED << missing, uncaught, emitted, initReached, startErr, handlers, chConnected, dirVars, sdVars,
                  procVars, logInflight, uplVars >>

\* config.js lines 92-96, server.js lines 35-37, 230-256, 45-51, 88-102:
\* producer.connect() settles; on success the handlers are registered and
\* runBuild() prepares the output directory (rmSync or mkdirSync may throw)
\* and issues the 'Starting build process...' publish
KafkaConnectSettle(ok, prepared, left) ==
  /\ ~exited /\ pc = "kafkaConnect"
  /\ IF ok
     THEN /\ handlers' = TRUE
          /\ IF prepared
             THEN /\ dirExists' = TRUE
                  /\ pc' = "pubStart"
                  /\ emitted' = emitted \cup {"started"}
                  /\ UNCHANGED << mainErr, cause >>
             ELSE /\ dirExists' = left
                  /\ RunBuildCatch("prepare")
                  /\ UNCHANGED emitted
          /\ UNCHANGED << tdVars, procKilled >>
     ELSE /\ InitializeCatch("kafka")
          /\ UNCHANGED << handlers, dirExists, emitted >>
  /\ UNCHANGED << missing, uncaught, initReached, startErr, svcVars, rmThrew, sdVars, procVars,
                  logInflight, uplVars >>


\* ---------------------------------------------------------- build steps
\* clickhouseService.js lines 78-83: insertBuildLog throws, before any I/O,
\* when the client is not connected
InsertThrows == ~chConnected

\* server.js lines 51-55: the 'Starting build process...' publish settles and
\* the 'Build process started' insert is issued
PubStartSettle(ok) ==
  /\ ~exited /\ pc = "pubStart"
  /\ IF ok /\ ~InsertThrows
     THEN /\ pc' = "insStart"
          /\ UNCHANGED << mainErr, cause >>
     ELSE RunBuildCatch(IF ok THEN "insert" ELSE "publish")
  /\ UNCHANGED << missing, uncaught, emitted, initReached, startErr, handlers, svcVars, dirVars, tdVars,
                  procKilled, sdVars, procVars, logInflight, uplVars >>

\* server.js lines 58, 104-176: the insert settles (its failure is swallowed,
\* clickhouseService.js lines 97-100) and executeBuildProcess() starts the
\* subprocess and arms the timeout
InsStartSettle ==
  /\ ~exited /\ pc = "insStart"
  /\ pc' = "exec"
  /\ proc' = "running"
  /\ timerArmed' = TRUE
  /\ execPromise' = "pending"
  /\ UNCHANGED << missing, uncaught, emitted, mainErr, cause, initReached, startErr, handlers, svcVars,
                  dirVars, tdVars, procKilled, sdVars, procCode, timerKill, execErr,
                  spawnFailed, chunks, logInflight, uplVars >>

\* ------------------------------------------------------ artifact listing
\* config.js line 30: config.project.uri
ProjectUri == "uri"

\* server.js line 180: distDir, as path segments
DistDir == << "output", "dist" >>

\* entries a recursive listing of dist may hold, as paths relative to dist, in
\* the order readdirSync reports them
Tree ==
  << [path |-> << "a.js" >>, dir |-> FALSE],
     [path |-> << "b.css" >>, dir |-> FALSE],
     [path |-> << "sub" >>, dir |-> TRUE],
     [path |-> << "sub", "a.js" >>, dir |-> FALSE] >>

\* the i-th smallest element of a set of numbers
Pick(S, i) == CHOOSE x \in S : Cardinality({ y \in S : y < x }) = i - 1

\* the entries of Tree at the positions in S, in order
Listed(S) == [i \in 1..Cardinality(S) |-> Tree[Pick(S, i)]]

\* server.js line 188: the listings readdirSync can return: an entry below a
\* directory is listed with that directory
Listings ==
  { Listed(S) : S \in { T \in SUBSET (1..Len(Tree)) :
        /\ Cardinality({ k \in T : ~Tree[k].dir }) <= MaxFiles
        /\ \A k \in T : Len(Tree[k].path) > 1 =>
              \E d \in T : Tree[d].dir /\ Tree[d].path = SubSeq(Tree[k].path, 1, 1) } }

\* server.js lines 191-193: the filter that computes totalFiles
CountsAsFile(e) == ~e.dir
TotalFiles(ls) == Cardinality({ k \in 1..Len(ls) : CountsAsFile(ls[k]) })

\* server.js lines 196-197: the loop skips directories
SkipsNothing(e) == FALSE
SkipsEntry(e) == e.dir

\* server.js line 196: path.join(distDir, file)
FilePath(e) == DistDir \o e.path

\* s3Service.js line 21: path.basename(filePath)
Basename(filePath) == filePath[Len(filePath)]

\* s3Service.js line 25: the Key of the PutObjectCommand
DestinationKey(projectUri, filePath) == << "__outputs", projectUri, Basename(filePath) >>

\* server.js lines 195-216: one uploadFile call per entry the loop does not
\* skip, in listing order
UploadCallsFor(ls) ==
  LET idx == { k \in 1..Len(ls) : ~SkipsEntry(ls[k]) }
  IN  [i \in 1..Cardinality(idx) |->
         [entry |-> Pick(idx, i),
          key   |-> DestinationKey(ProjectUri, FilePath(ls[Pick(idx, i)]))]]

\* server.js lines 179-218: uploadArtifacts() up to its await.  What the
\* build left behind is an input: whether dist exists and what it lists.
UploadArtifacts(dist, ls) ==
  /\ distExists' = dist
  /\ IF dist
     THEN /\ listing' = ls
          /\ nFiles' = TotalFiles(ls)
          /\ calls' = UploadCallsFor(ls)
          /\ upl' = [i \in Files |-> IF i <= Len(UploadCallsFor(ls)) THEN "s3" ELSE "none"]
          /\ uploadCalls' = uploadCalls + Len(UploadCallsFor(ls))
          /\ IF Len(UploadCallsFor(ls)) = 0
             THEN pc' = "pubDone" /\ emitted' = emitted \cup {"completed"}
             ELSE pc' = "upload" /\ UNCHANGED emitted
          /\ UNCHANGED << mainErr, cause >>
     ELSE /\ RunBuildCatch("nodist")
          /\ UNCHANGED << listing, nFiles, calls, upl, uploadCalls, emitted >>
  /\ UNCHANGED << uploadedCount, progress >>

\* codes a 'close' event can carry: the errno of a failed spawn, the exit code
\* of the command, or null ("null") when a signal ended it
CloseCodes ==
  IF spawnFailed THEN {"errno"}
  ELSE IF procKilled THEN {"0", "1", "null"}
  ELSE {"0", "1"}

\* server.js lines 145-155 and 175: both 'close' listeners, and on code 0 the
\* continuation of runBuild() into uploadArtifacts()
CloseEvent(code) ==
  /\ ~exited /\ proc = "running"
  /\ code \in CloseCodes
  /\ proc' = "closed"
  /\ procCode' = code
  /\ timerArmed' = FALSE
  /\ IF execPromise = "pending"
     THEN IF code = "0"
          THEN /\ execPromise' = "resolved"
               /\ \/ UploadArtifacts(FALSE, << >>)
                  \/ \E ls \in Listings : UploadArtifacts(TRUE, ls)
               /\ UNCHANGED execErr
          ELSE /\ execPromise' = "rejected"
               /\ execErr' = "exit"
               /\ RunBuildCatch("build")
               /\ UNCHANGED << uplVars, emitted >>
     ELSE UNCHANGED << execPromise, execErr, pc, mainErr, cause, uplVars, emitted >>
  /\ UNCHANGED << missing, uncaught, initReached, startErr, handlers, svcVars, dirVars, tdVars,
                  procKilled, sdVars, timerKill, spawnFailed, chunks, logInflight >>

\* server.js lines 157-163: the 'error' listener (the subprocess could not be
\* started)
ErrorEvent ==
  /\ ~exited /\ proc = "running" /\ ~spawnFailed /\ chunks = 0
  /\ spawnFailed' = TRUE
  /\ IF execPromise = "pending"
     THEN /\ execPromise' = "rejected"
          /\ execErr' = "spawn"
          /\ RunBuildCatch("build")
     ELSE UNCHANGED << execPromise, execErr, pc, mainErr, cause >>
  /\ UNCHANGED << missing, uncaught, emitted, initReached, startErr, handlers, svcVars, dirVars, tdVars,
                  procKilled, sdVars, proc, procCode, timerArmed, timerKill, chunks,
                  logInflight, uplVars >>

\* server.js lines 166-173: the timeout callback
TimerFire ==
  /\ ~exited /\ timerArmed
  /\ timerArmed' = FALSE
  /\ procKilled' = KillOnCleanup
  /\ timerKill' = (timerKill \/ (proc = "running" /\ ~spawnFailed))
  /\ IF execPromise = "pending"
     THEN /\ execPromise' = "rejected"
          /\ execErr' = "timeout"
          /\ RunBuildCatch("build")
     ELSE UNCHANGED << execPromise, execErr, pc, mainErr, cause >>
  /\ UNCHANGED << missing, uncaught, emitted, initReached, startErr, handlers, svcVars, dirVars, tdVars,
                  sdVars, proc, procCode, spawnFailed, chunks, logInflight, uplVars >>

\* server.js lines 251-255: the unhandledRejection handler
UnhandledRejection ==
  /\ cause' = FirstCause("fault")
  /\ Cleanup(TRUE, 1)

\* server.js lines 121-143: a stdout or stderr chunk arrives; the handler
\* issues the publish and the insert and suspends at Promise.all.  When the
\* insert throws, the handler's promise rejects with nobody awaiting it.
OnData ==
  /\ ~exited /\ proc = "running" /\ ~spawnFailed /\ chunks < MaxChunks
  /\ chunks' = chunks + 1
  /\ IF InsertThrows
     THEN /\ UnhandledRejection
          /\ UNCHANGED logInflight
     ELSE /\ logInflight' = logInflight + 1
          /\ UNCHANGED << cause, tdVars, procKilled >>
  /\ UNCHANGED << missing, uncaught, emitted, pc, mainErr, initReached, startErr, handlers, svcVars,
                  dirVars, sdVars, proc, procCode, timerArmed, timerKill, execPromise,
                  execErr, spawnFailed, uplVars >>

\* server.js lines 125-128, 135-142: the Promise.all of one data handler
\* settles; it rejects when the publish rejects (config.js lines 116-119)
LogSettle(ok) ==
  /\ ~exited /\ logInflight > 0
  /\ logInflight' = logInflight - 1
  /\ IF ok
     THEN UNCHANGED << cause, tdVars, procKilled >>
     ELSE UnhandledRejection
  /\ UNCHANGED << missing, uncaught, emitted, pc, mainErr, initReached, startErr, handlers, svcVars,
                  dirVars, sdVars, procVars, uplVars >>


\* --------------------------------------------------------------- uploads
\* server.js lines 202-205: uploadedCount++ and the progress value handed to
\* publishLog, read in the same uninterrupted step
ProgressStale(prog, count) == Append(prog, count)
ProgressAfterUpload(prog, count) == Append(prog, count + 1)

\* server.js lines 206-212, 218: an upload task throws; Promise.all rejects at
\* the first rejection, and runBuild(), if it is still waiting there, enters
\* its catch block
UploadTaskThrows ==
  IF pc = "upload"
  THEN RunBuildCatch("upload")
  ELSE UNCHANGED << pc, mainErr, cause >>

\* server.js lines 199-212 and s3Service.js lines 30-36: the transfer of file
\* i settles
S3Settle(i, ok) ==
  /\ ~exited /\ upl[i] = "s3"
  /\ IF ok
     THEN /\ uploadedCount' = uploadedCount + 1
          /\ progress' = ProgressAfterUpload(progress, uploadedCount)
          /\ upl' = [upl EXCEPT ![i] = "pub"]
          /\ UNCHANGED << pc, mainErr, cause >>
     ELSE /\ upl' = [upl EXCEPT ![i] = "s3fail"]
          /\ UploadTaskThrows
          /\ UNCHANGED << uploadedCount, progress >>
  /\ UNCHANGED << missing, uncaught, emitted, initReached, startErr, handlers, svcVars, dirVars, tdVars,
                  procKilled, sdVars, procVars, logInflight, distExists, listing, calls, nFiles,
                  uploadCalls >>

\* server.js line 218: Promise.all resolves when task i was the last one
\* outstanding and every other task has resolved
AnyUploadResolved(i) == TRUE
AllUploadsResolved(i) == \A j \in 1..Len(calls) : j # i => upl[j] = "ok"

\* server.js lines 203-212, 218 and 64: the progress publish of file i
\* settles; when the last task resolves Promise.all resolves and runBuild()
\* issues the 'Build completed successfully' publish
ProgressPubSettle(i, ok) ==
  /\ ~exited /\ upl[i] = "pub"
  /\ IF ok
     THEN /\ upl' = [upl EXCEPT ![i] = "ok"]
          /\ IF pc = "upload" /\ AllUploadsResolved(i)
             THEN pc' = "pubDone" /\ emitted' = emitted \cup {"completed"}
             ELSE UNCHANGED << pc, emitted >>
          /\ UNCHANGED << mainErr, cause >>
     ELSE /\ upl' = [upl EXCEPT ![i] = "pubfail"]
          /\ UploadTaskThrows
          /\ UNCHANGED emitted
  /\ UNCHANGED << missing, uncaught, initReached, startErr, handlers, svcVars, dirVars, tdVars,
                  procKilled, sdVars, procVars, logInflight, distExists, listing, calls, nFiles,
                  uploadedCount, progress, uploadCalls >>

\* ------------------------------------------------ completion and failure
\* server.js lines 64-69: the 'Build completed successfully' publish settles
PubDoneSettle(ok) ==
  /\ ~exited /\ pc = "pubDone"
  /\ IF ok /\ ~InsertThrows
     THEN /\ pc' = "insDone"
          /\ UNCHANGED << mainErr, cause >>
     ELSE RunBuildCatch(IF ok THEN "insert" ELSE "publish")
  /\ UNCHANGED << missing, uncaught, emitted, initReached, startErr, handlers, svcVars, dirVars, tdVars,
                  procKilled, sdVars, procVars, logInflight, uplVars >>

\* server.js lines 71-72: the insert settles; cleanup() and process.exit(0)
InsDoneSettle ==
  /\ ~exited /\ pc = "insDone"
  /\ pc' = "cleanup"
  /\ Cleanup(FALSE, 0)
  /\ UNCHANGED << missing, uncaught, emitted, mainErr, cause, initReached, startErr, handlers, svcVars,
                  dirVars, sdVars, procVars, logInflight, uplVars >>

\* server.js lines 76-81: the 'Build failed' publish settles.  A rejection, or
\* an insert that throws, leaves runBuild() and is caught by initialize().
CatchPubSettle(ok) ==
  /\ ~exited /\ pc = "catchPub"
  /\ IF ok /\ ~InsertThrows
     THEN /\ pc' = "catchIns"
          /\ UNCHANGED << mainErr, cause, tdVars, procKilled >>
     ELSE InitializeCatch(IF ok THEN "insert" ELSE "publish")
  /\ UNCHANGED << missing, uncaught, emitted, initReached, startErr, handlers, svcVars, dirVars, sdVars,
                  procVars, logInflight, uplVars >>

\* server.js lines 83-84: the insert settles; cleanup(error) and process.exit(1)
CatchInsSettle ==
  /\ ~exited /\ pc = "catchIns"
  /\ pc' = "cleanup"
  /\ Cleanup(TRUE, 1)
  /\ UNCHANGED << missing, uncaught, emitted, mainErr, cause, initReached, startErr, handlers, svcVars,
                  dirVars, sdVars, procVars, logInflight, uplVars >>

\* -------------------------------------------------------------- teardown
\* server.js lines 273-294, errorHandler.js lines 60-93: the metrics insert
\* settles (a failure is swallowed, clickhouseService.js lines 128-131) and
\* gracefulShutdown() starts both disconnects and runs the directory removal,
\* which is synchronous; rmSync may throw
MetricsSettle(ok, rmOk) ==
  /\ ~exited /\ td = "metrics"
  /\ metrics' = IF ok THEN tdStatus ELSE metrics
  /\ kafkaDisc' = IF producer THEN "pending" ELSE "done"
  /\ kafkaDisconnects' = kafkaDisconnects + (IF producer THEN 1 ELSE 0)
  /\ chDisc' = IF chConnected THEN "pending" ELSE "done"
  /\ chDisconnects' = chDisconnects + (IF chConnected THEN 1 ELSE 0)
  /\ rmAttempts' = rmAttempts + (IF dirExists THEN 1 ELSE 0)
  /\ dirExists' = (dirExists /\ ~rmOk)
  /\ rmThrew' = (rmThrew \/ (dirExists /\ ~rmOk))
  /\ IF producer \/ chConnected
     THEN /\ td' = "shutdown"
          /\ UNCHANGED << exited, exitCode >>
     ELSE /\ td' = "done"
          /\ exited' = TRUE
          /\ exitCode' = tdCode
  /\ UNCHANGED << missing, uncaught, emitted, mainVars, svcVars, isExiting, tdStatus, tdCode, metricsCalls,
                  procKilled, procVars, logInflight, uplVars >>

ShutdownPending(kd, cd) == UNCHANGED << td, exited, exitCode >>

\* errorHandler.js lines 92-97, server.js line 298 and the caller's
\* process.exit: Promise.allSettled resolves once no disconnect is pending
ShutdownSettled(kd, cd) ==
  IF kd # "pending" /\ cd # "pending"
  THEN /\ td' = "done"
       /\ exited' = TRUE
       /\ exitCode' = tdCode
  ELSE UNCHANGED << td, exited, exitCode >>

\* config.js lines 122-126: producer.disconnect() settles
KafkaDisconnectSettle ==
  /\ ~exited /\ td = "shutdown" /\ kafkaDisc = "pending"
  /\ kafkaDisc' = "done"
  /\ ShutdownSettled("done", chDisc)
  /\ UNCHANGED << missing, uncaught, emitted, mainVars, svcVars, dirVars, isExiting, tdStatus, tdCode,
                  metricsCalls, procKilled, chDisc, metrics, kafkaDisconnects,
                  chDisconnects, rmAttempts, procVars, logInflight, uplVars >>

\* clickhouseService.js lines 186-196: client.close() settles; isConnected is
\* cleared only when it resolved
ChDisconnectSettle(ok) ==
  /\ ~exited /\ td = "shutdown" /\ chDisc = "pending"
  /\ chDisc' = "done"
  /\ chConnected' = (chConnected /\ ~ok)
  /\ ShutdownSettled(kafkaDisc, "done")
  /\ UNCHANGED << missing, uncaught, emitted, mainVars, producer, dirVars, isExiting, tdStatus, tdCode,
                  metricsCalls, procKilled, kafkaDisc, metrics, kafkaDisconnects,
                  chDisconnects, rmAttempts, procVars, logInflight, uplVars >>

\* -------------------------------------------------------------- triggers
\* server.js lines 231-241: the SIGTERM and SIGINT handlers
Signal ==
  /\ ~exited /\ handlers
  /\ cause' = FirstCause("signal")
  /\ Cleanup(FALSE, 0)
  /\ UNCHANGED << missing, uncaught, emitted, pc, mainErr, initReached, startErr, handlers, svcVars,
                  dirVars, sdVars, procVars, logInflight, uplVars >>

\* server.js lines 244-248: the uncaughtException handler
UncaughtException ==
  /\ ~exited /\ handlers
  /\ uncaught' = TRUE
  /\ cause' = FirstCause("fault")
  /\ Cleanup(TRUE, 1)
  /\ UNCHANGED << missing, emitted, pc, mainErr, initReached, startErr, handlers, svcVars,
                  dirVars, sdVars, procVars, logInflight, uplVars >>

Next ==
  \/ LoadConfig
  \/ Initialize
  \/ \E ok \in BOOLEAN : ChPingSettle(ok)
  \/ \E ok \in BOOLEAN : ChExecSettle(ok)
  \/ \E ok, prepared, left \in BOOLEAN : KafkaConnectSettle(ok, prepared, left)
  \/ \E ok \in BOOLEAN : PubStartSettle(ok)
  \/ InsStartSettle
  \/ \E code \in {"0", "1", "null", "errno"} : CloseEvent(code)
  \/ ErrorEvent
  \/ TimerFire
  \/ OnData
  \/ \E ok \in BOOLEAN : LogSettle(ok)
  \/ \E i \in Files, ok \in BOOLEAN : S3Settle(i, ok)
  \/ \E i \in Files, ok \in BOOLEAN : ProgressPubSettle(i, ok)
  \/ \E ok \in BOOLEAN : PubDoneSettle(ok)
  \/ InsDoneSettle
  \/ \E ok \in BOOLEAN : CatchPubSettle(ok)
  \/ CatchInsSettle
  \/ \E ok, rmOk \in BOOLEAN : MetricsSettle(ok, rmOk)
  \/ KafkaDisconnectSettle
  \/ \E ok \in BOOLEAN : ChDisconnectSettle(ok)
  \/ Signal
  \/ UncaughtException

Spec == Init /\ [][Next]_vars

\* the steps the program takes by itself once its module is loaded
ProgramStep == LoadConfig \/ Initialize

\* a pending call to a collaborator (ClickHouse, Kafka, S3) settles
CollaboratorSettles ==
  \/ \E ok \in BOOLEAN : ChPingSettle(ok)
  \/ \E ok \in BOOLEAN : ChExecSettle(ok)
  \/ \E ok, prepared, left \in BOOLEAN : KafkaConnectSettle(ok, prepared, left)
  \/ \E ok \in BOOLEAN : PubStartSettle(ok)
  \/ InsStartSettle
  \/ \E ok \in BOOLEAN : LogSettle(ok)
  \/ \E i \in Files, ok \in BOOLEAN : S3Settle(i, ok)
  \/ \E i \in Files, ok \in BOOLEAN : ProgressPubSettle(i, ok)
  \/ \E ok \in BOOLEAN : PubDoneSettle(ok)
  \/ InsDoneSettle
  \/ \E ok \in BOOLEAN : CatchPubSettle(ok)
  \/ CatchInsSettle
  \/ \E ok, rmOk \in BOOLEAN : MetricsSettle(ok, rmOk)
  \/ KafkaDisconnectSettle
  \/ \E ok \in BOOLEAN : ChDisconnectSettle(ok)

\* the subprocess closes, or the timeout timer fires while it is armed
SubprocessEnds ==
  \/ \E code \in {"0", "1", "null", "errno"} : CloseEvent(code)
  \/ TimerFire

\* Fairness: the event loop runs the program's own steps, every pending
\* collaborator call settles, and the subprocess closes or the armed timer
\* fires.  Signals, uncaught exceptions, output chunks and spawn errors may
\* happen but are not required to.
FairSpec ==
  /\ Spec
  /\ WF_vars(ProgramStep)
  /\ WF_vars(CollaboratorSettles)
  /\ WF_vars(SubprocessEnds)


\* ================================================================ claims

Settled(i) == upl[i] \in {"ok", "s3fail", "pubfail"}

\* C1: however many times and in whatever interleaving cleanup() is called,
\* teardown is performed by the first caller alone: build metrics are recorded
\* at most once, each collaborator is disconnected at most once and the
\* removal of the output directory is attempted at most once.
C1_TeardownOnce ==
  /\ metricsCalls <= 1
  /\ kafkaDisconnects <= 1
  /\ chDisconnects <= 1
  /\ rmAttempts <= 1

\* C1 witness: a second caller arrived while the first caller's teardown was
\* suspended in gracefulShutdown (the only way to exit there), and every
\* teardown step had still run exactly once.
C1_Witness ==
  /\ exited /\ td = "shutdown"
  /\ metricsCalls = 1 /\ kafkaDisconnects = 1 /\ chDisconnects = 1 /\ rmAttempts = 1

\* C2: the process never exits while the teardown started by the first caller
\* of cleanup() is still in progress.
C2_NoExitDuringTeardown == exited => td \notin {"metrics", "shutdown"}

\* C3: at every process exit after initialize() was entered, the output
\* directory has been removed (unless the removal itself raised).
C3_DirRemovedAtExit == (exited /\ initReached) => (~dirExists \/ rmThrew)

\* C4: when a step of the build sequence or of initialization failed before
\* anything else triggered teardown, the process exits with code 1, never 0.
C4_FailureExitsOne == (exited /\ cause = "failure") => exitCode = 1

\* C5: when SIGTERM or SIGINT is the first trigger, the process exits with
\* code 0; neither the 'close' event of the subprocess the shutdown killed nor
\* a rejected log-forwarding call turns that into code 1.  (Runs in which the
\* build sequence caught an error of its own, or an uncaught exception was
\* raised, after the signal are left out.)
C5_SignalExitsZero ==
  ( /\ exited
    /\ cause = "signal"
    /\ ~uncaught
    /\ \/ mainErr = "none"
       \/ (mainErr = "build" /\ execErr = "exit" /\ procCode = "null") )
  => exitCode = 0

\* C6: a subprocess that exits with code 0 has its artifacts uploaded (one
\* upload call per listed file); after a subprocess that exits with a non-zero
\* code no upload call is ever issued and the build-metrics row does not say
\* SUCCESS.  (The non-zero half is stated for runs whose first trigger is the
\* failure, with no uncaught exception.)
C6_ExitCodeDecidesOutcome ==
  /\ (procCode = "0" /\ execPromise = "resolved" /\ distExists) => uploadCalls = nFiles
  /\ (procCode = "1" /\ cause = "failure" /\ ~uncaught)
       => (uploadCalls = 0 /\ metrics # "SUCCESS")

\* C7: when the timeout fires on a subprocess that has not exited, a kill is
\* sent, executeBuildProcess fails, no upload is attempted and the recorded
\* status is FAILED, also after the later 'close' event.
C7_TimeoutFails ==
  (execErr = "timeout" /\ cause = "failure" /\ ~uncaught)
  => ( /\ timerKill
       /\ execPromise = "rejected"
       /\ mainErr = "build"
       /\ uploadCalls = 0
       /\ metrics # "SUCCESS" )

\* C8: when the storage collaborator rejected a file, uploadArtifacts has
\* failed (and failure reporting has begun) only once every upload task has
\* settled.
C8_FailsAfterAllSettled ==
  (mainErr = "upload" /\ \E k \in 1..nFiles : upl[k] = "s3fail")
  => \A i \in 1..nFiles : Settled(i)

\* C9: the progress values handed to publishLog are 1, 2, ... in the order of
\* the calls, none exceeds totalFiles, and once every transfer has succeeded
\* there are exactly totalFiles of them, the last one being totalFiles.
C9_ProgressSequence ==
  /\ \A k \in 1..Len(progress) : progress[k] = k
  /\ Len(progress) <= nFiles
  /\ (nFiles > 0 /\ \A i \in 1..nFiles : upl[i] \in {"pub", "ok", "pubfail"})
       => (Len(progress) = nFiles /\ progress[nFiles] = nFiles)

\* C9 witness: MaxFiles uploads ran concurrently, all succeeded, and all
\* progress events were published.
C9_Witness ==
  /\ nFiles = MaxFiles
  /\ \A i \in 1..nFiles : upl[i] = "ok"
  /\ Len(progress) = MaxFiles

\* C10: whenever some of the five required variables are missing (and nothing
\* else is), start-up reaches initialize() and fails there with a
\* VALIDATION_ERROR that lists exactly the missing variables.
C10_AllMissingListed ==
  (missing # {} /\ missing \subseteq Range(RequiredVars) /\ pc \notin {"load", "init"})
  => ( /\ initReached
       /\ startErr.code = "VALIDATION_ERROR"
       /\ Range(startErr.fields) = missing
       /\ Len(startErr.fields) = Cardinality(missing) )

\* C11: for every listing of the artifact directory, uploadArtifacts issues
\* exactly one upload call per non-directory entry and none for a directory,
\* the number of calls equals totalFiles, and the destination key of each call
\* is __outputs/<projectURI>/<file name of its entry>.
C11_OneCallPerFile ==
  distExists =>
    /\ \A k \in 1..Len(listing) :
         Cardinality({ i \in 1..Len(calls) : calls[i].entry = k })
           = (IF listing[k].dir THEN 0 ELSE 1)
    /\ Len(calls) = nFiles
    /\ uploadCalls = nFiles
    /\ \A i \in 1..Len(calls) :
         LET path == listing[calls[i].entry].path
         IN  calls[i].key = << "__outputs", ProjectUri, path[Len(path)] >>

\* C11 witness: a listing with a directory, a file inside it and a file at the
\* top has been uploaded with two calls.
C11_Witness ==
  /\ distExists
  /\ Len(calls) = 2
  /\ \E k \in 1..Len(listing) : listing[k].dir
  /\ \E k \in 1..Len(listing) : Len(listing[k].path) = 2 /\ ~listing[k].dir

\* C12: once a teardown has ended, every step it owed has been executed: the
\* output directory has been removed or its removal attempted, a connected
\* message-bus producer has been disconnected and a connected ClickHouse
\* client has been disconnected, whichever other step failed.
C12_StepsIndependent ==
  td \in {"aborted", "done"} =>
    /\ dirExists => rmAttempts = 1
    /\ producer => kafkaDisconnects = 1
    /\ chConnected => chDisconnects = 1

\* C13: 'Build completed successfully' is emitted only after the subprocess
\* has exited with code 0 and every upload call issued for the job has
\* resolved, and a subprocess is spawned only after 'Starting build
\* process...' has been emitted.
C13_StatusEventOrder ==
  /\ "completed" \in emitted =>
       /\ procCode = "0"
       /\ execPromise = "resolved"
       /\ \A i \in 1..Len(calls) : upl[i] = "ok"
  /\ proc # "none" => "started" \in emitted

\* C13 witness: the completion event has been emitted for a job that issued
\* two upload calls.
C13_Witness ==
  /\ emitted = {"started", "completed"}
  /\ Len(calls) = 2
  /\ proc # "none"

\* C14: when every collaborator call settles and the subprocess closes or
\* the timer fires, every execution reaches a process exit.
C14_EventuallyExits == <>exited

\* C14 witness: the process has exited after a teardown that ran to the end
\* of gracefulShutdown.
C14_Witness == exited /\ td = "done" /\ kafkaDisc = "done" /\ chDisc # "pending"

\* C15: once executeBuildProcess has settled, by a close with code 0, a close
\* with another code, the 'error' event or the timeout itself, the timeout
\* timer is no longer armed.
C15_TimerDisarmedOnSettle ==
  execPromise \in {"resolved", "rejected"} => ~timerArmed

C17_UploadFailedOnlyOnTransfer ==
  mainErr = "upload" => \E k \in 1..Len(calls) : upl[k] = "s3fail"

\* C18: insertBuildLog and recordBuildMetrics never raise to their caller,
\* whether the ClickHouse client is connected or not: no job fails on a log
\* insert and no teardown is cut short by the metrics record.
C18_DatabaseBestEffort ==
  /\ mainErr # "insert"
  /\ td # "aborted"

\* C19: when executeBuildProcess resolves, every log-forwarding call issued
\* for a chunk of subprocess output has settled.
C19_LogsSettledBeforeFinish ==
  execPromise = "resolved" => logInflight = 0

\* C20: in every state where the shutdown latch is set and a started
\* subprocess has not exited, a kill has been sent to it.
C20_KilledWhenLatched ==
  (isExiting /\ proc = "running" /\ ~spawnFailed) => procKilled

\* C21: the stored build-metrics row says SUCCESS only if the subprocess
\* exited with code 0 and every upload call issued for the job succeeded.
C21_SuccessOnlyWhenBuilt ==
  metrics = "SUCCESS" =>
    /\ procCode = "0"
    /\ \A i \in 1..Len(calls) : upl[i] = "ok"

\* C22: within one job no two upload calls, each made for a distinct
\* non-directory entry of the listing, have the same destination key.
C22_DistinctKeys ==
  \A i, j \in 1..Len(calls) :
    calls[i].entry # calls[j].entry => calls[i].key # calls[j].key

====
